---------------------------- MODULE Spec2Model ----------------------------
(***************************************************************************)
(* Model of the chat hook useChat (frontend/src/hooks, the second half of  *)
(* src/frontend/src/hooks/use-session.ts, lines 56-253): the WebSocket     *)
(* connection manager (connect / onopen / onclose / onerror / effect       *)
(* cleanup), the inbound frame handler that assembles the transcript, and  *)
(* the facade operations sendMessage and clearMessages; with them the chat  *)
(* input component that calls sendMessage, and React's queue of transcript *)
(* updates.                                                                *)
(*                                                                         *)
(* Conventions.                                                            *)
(*  - JavaScript's null / undefined is the empty sequence None, a present  *)
(*    value x is <<x>>.                                                    *)
(*  - Text is a sequence of characters, so that += is \o.                  *)
(*  - A browser WebSocket is a slot of `sockets`; a setTimeout handle is a *)
(*    slot of `timers`.  A slot is recycled once the object is dead and no *)
(*    ref points to it (garbage collection).                               *)
(*  - React state setters are applied in call order when the handler that  *)
(*    calls them runs; every handler runs to completion (single thread).   *)
(*    SpecDeferred has the setters of the transcript queued instead.       *)
(*  - generateId() returns a value no live ChatMessage has: the id of a     *)
(*    message that is neither in the transcript nor the in-progress one is *)
(*    recycled, so MaxTurns bounds the messages alive at one time.         *)
(*  - The timestamp field of ChatMessage is never read by the hook and is  *)
(*    left out.                                                            *)
(***************************************************************************)
EXTENDS Integers, Sequences, FiniteSets, TLC

\* ------------------------------------------------------------------ bounds
\* Number of distinct non-empty session identifiers the hook is given.
MaxSessions == 2
\* Most ChatMessage objects alive at one time (the transcript and the
\* in-progress message).
MaxTurns == 3
\* Most payload items (characters, charts, status labels, usage records)
\* the assistant turns hold at one time.
MaxData == 2
\* Most chart payloads one message_end frame bundles.
MaxEndCharts == 2
\* Most outbound frames in flight to the server.
MaxWire == 1
\* Most requests the server has yet to finish answering on one connection.
MaxOutstanding == 1
\* Most entries of the console, and most undecodable frames counted.
MaxLog == 2
\* Most transcript updates queued and not yet applied.
MaxPending == 3

\* ------------------------------------------------------------- value sets
None == <<>>
Some(x) == <<x>>
IsNone(o) == Len(o) = 0
IsSome(o) == Len(o) > 0

\* Session identifiers: 0 is the empty string "", 1..MaxSessions are the
\* identifiers the session provider supplies, in the order it supplies them.
SessionIds == 0..MaxSessions
SockIds == 1..MaxSessions
TimerIds == 1..MaxSessions
TurnIds == 1..MaxTurns

Deltas == {<<"a">>, <<"b">>}
Texts == {<<"h">>}
Charts == {"spec1", "spec2"}
Labels == {"Analyzing"}
Usages == {[input_tokens |-> 10, output_tokens |-> 5, model |-> "x"],
           [input_tokens |-> 7, output_tokens |-> 3, model |-> "y"]}

RECURSIVE SeqsUpTo(_, _)
SeqsUpTo(S, n) ==
  IF n = 0 THEN {<<>>}
  ELSE LET shorter == SeqsUpTo(S, n - 1)
       IN shorter \cup {Append(s, x) : s \in {t \in shorter : Len(t) = n - 1}, x \in S}

\* The charts field of a message_end frame: absent, or a list of payloads.
EndCharts == {None} \cup {Some(s) : s \in SeqsUpTo(Charts, MaxEndCharts)}
\* The token_usage field of a message_end frame: absent, or a record.
EndUsages == {None} \cup {Some(u) : u \in Usages}

VARIABLES
  sessionId,        \* the sessionId argument of useChat (0 is "")
  mounted,          \* the effect of the hook has run and its cleanup has not run since
  sockets,          \* WebSocket objects: readyState and the sessionId their closure captured
  timers,           \* setTimeout handles: state and the sessionId their connect captured
  wsRef,            \* wsRef.current: 0 is null, otherwise a socket
  reconnectTimerRef,\* reconnectTimerRef.current: 0 is null, otherwise a timer handle
  isConnected,      \* React state isConnected
  isLoading,        \* React state isLoading (the busy flag)
  messages,         \* React state messages (the transcript)
  currentMsgRef,    \* currentMsgRef.current: None, or the in-progress ChatMessage object
  wire,             \* outbound frames transmitted and not yet taken by the server
  pc,               \* "idle", or "send" inside sendMessage between the state updates and ws.send
  sendArg,          \* the argument of the sendMessage call in progress
  deltaLog,         \* history: per turn id, the text_delta contents applied to that turn, in arrival order
  touched,          \* history: the id of the assistant turn an inbound frame created or modified last (0: none)
  outstanding,      \* history: the user turns (ids, oldest first; 0 once the turn is gone) sent on the connection of wsRef whose response has not ended
  abandoned,        \* history: the id of the in-progress message if it was already in progress when the connection of wsRef last closed (0 otherwise)
  consoleErrors,    \* the number of entries console.error has written
  undecodable,      \* history: the number of inbound frames that did not parse or had an unknown type tag
  pending,          \* the setMessages updates React has queued and not yet applied, oldest first
  shared,           \* the transcript entry (or queued entry) of the in-progress message is the object currentMsgRef points to, not a copy
  built             \* history: per id, the ChatMessage object the handlers built, as they last left it

vars == <<sessionId, mounted, sockets, timers, wsRef, reconnectTimerRef,
          isConnected, isLoading, messages, currentMsgRef, wire,
          pc, sendArg, deltaLog, touched, outstanding, abandoned,
          consoleErrors, undecodable, pending, shared, built>>

connVars == <<sockets, timers, wsRef, reconnectTimerRef, isConnected>>
chatVars == <<isLoading, messages, currentMsgRef, deltaLog, touched>>
sendVars == <<wire, pc, sendArg>>
serverVars == <<outstanding, abandoned>>
logVars == <<consoleErrors, undecodable>>
queueVars == <<pending, shared, built>>


\* ------------------------------------------------- sockets and timers
FreeSocket == [st |-> "FREE", sid |-> 0]
FreeTimer == [st |-> "FREE", sid |-> 0]

\* A closed WebSocket no ref points to is garbage; so is a fired or cleared
\* timer handle no ref points to.
CollectSockets(socks, ref) ==
  [s \in SockIds |-> IF socks[s].st = "CLOSED" /\ s # ref THEN FreeSocket ELSE socks[s]]

CollectTimers(tms, ref) ==
  [t \in TimerIds |-> IF tms[t].st = "DONE" /\ t # ref THEN FreeTimer ELSE tms[t]]

\* The slot `new WebSocket(...)` takes when wsRef is about to be overwritten.
SocketSlots(socks) == {s \in SockIds : socks[s].st \in {"FREE", "CLOSED"}}
NewSocketSlot(socks) == CHOOSE s \in SocketSlots(socks) : \A r \in SocketSlots(socks) : s <= r

\* The slot setTimeout takes when reconnectTimerRef is about to be overwritten.
TimerSlots(tms) == {t \in TimerIds : tms[t].st \in {"FREE", "DONE"}}
NewTimerSlot(tms) == CHOOSE t \in TimerSlots(tms) : \A r \in TimerSlots(tms) : t <= r

\* WebSocket.close(): a connecting or open socket starts closing; closing
\* or closed sockets are left alone.
WsClose(sock) ==
  IF sock.st \in {"CONNECTING", "OPEN"} THEN [sock EXCEPT !.st = "CLOSING"] ELSE sock

\* clearTimeout(handle): a pending timer never fires; a fired or cleared
\* handle is left alone.
ClearTimeout(tm) ==
  IF tm.st = "PENDING" THEN [tm EXCEPT !.st = "DONE"] ELSE tm

\* --------------------------------------------------------------- connect
\* A wrong connect: the empty identifier is not looked at.
connectAnyId(sid, c) ==
  LET s == NewSocketSlot(c.sockets)
      opened == [c.sockets EXCEPT ![s] = [st |-> "CONNECTING", sid |-> sid]]
  IN [sockets |-> CollectSockets(opened, s), wsRef |-> s]

\* connect(), as created for session identifier sid: `if (!sessionId) return`,
\* then a new WebSocket stored in wsRef.  The state it works on and returns
\* is [sockets, wsRef].
connect(sid, c) ==
  IF sid = 0 THEN c
  ELSE LET s == NewSocketSlot(c.sockets)
           opened == [c.sockets EXCEPT ![s] = [st |-> "CONNECTING", sid |-> sid]]
       IN [sockets |-> CollectSockets(opened, s), wsRef |-> s]

\* connect() can run: a WebSocket object can be allocated.
CanConnect(sid, socks) == sid # 0 => SocketSlots(socks) # {}

\* ws.onopen: setIsConnected(true) and the pending reconnect timer cleared.
\* The state it works on and returns is [isConnected, timers, reconnectTimerRef].
onopen(c) ==
  [isConnected |-> TRUE,
   timers |-> IF c.reconnectTimerRef # 0
              THEN CollectTimers([c.timers EXCEPT ![c.reconnectTimerRef] = ClearTimeout(@)], 0)
              ELSE c.timers,
   reconnectTimerRef |-> 0]

\* A wrong onclose: no reconnect is scheduled.
oncloseNoTimer(sid, c) ==
  [isConnected |-> FALSE, timers |-> c.timers, reconnectTimerRef |-> c.reconnectTimerRef]

\* A wrong onclose: a second reconnect is scheduled when a handle is free.
oncloseTwoTimers(sid, c) ==
  LET t == NewTimerSlot(c.timers)
      armed == [c.timers EXCEPT ![t] = [st |-> "PENDING", sid |-> sid]]
      more == TimerSlots(armed)
      both == IF more = {} THEN armed
              ELSE [armed EXCEPT ![NewTimerSlot(armed)] = [st |-> "PENDING", sid |-> sid]]
  IN [isConnected |-> FALSE,
      timers |-> CollectTimers(both, t),
      reconnectTimerRef |-> t]

\* ws.onclose of a socket whose connect was created for sid:
\* setIsConnected(false) and one new timer, stored in reconnectTimerRef,
\* whose callback is that connect.
onclose(sid, c) ==
  LET t == NewTimerSlot(c.timers)
      armed == [c.timers EXCEPT ![t] = [st |-> "PENDING", sid |-> sid]]
  IN [isConnected |-> FALSE,
      timers |-> CollectTimers(armed, t),
      reconnectTimerRef |-> t]

\* ws.onerror: setIsConnected(false).
onerror(c) == [c EXCEPT !.isConnected = FALSE]

\* The cleanup of the effect: the timer in reconnectTimerRef is cleared (the
\* ref keeps the handle) and wsRef.current?.close().
\* The state it works on and returns is [sockets, timers].
cleanup(c, wref, tref) ==
  [sockets |-> IF wref # 0 THEN [c.sockets EXCEPT ![wref] = WsClose(@)] ELSE c.sockets,
   timers |-> IF tref # 0 THEN [c.timers EXCEPT ![tref] = ClearTimeout(@)] ELSE c.timers]

\* ------------------------------------------------------------------ init
Init ==
  /\ sessionId = 0
  /\ mounted = FALSE
  /\ sockets = [s \in SockIds |-> FreeSocket]
  /\ timers = [t \in TimerIds |-> FreeTimer]
  /\ wsRef = 0
  /\ reconnectTimerRef = 0
  /\ isConnected = FALSE
  /\ isLoading = FALSE
  /\ messages = <<>>
  /\ currentMsgRef = None
  /\ wire = <<>>
  /\ pc = "idle"
  /\ sendArg = <<>>
  /\ deltaLog = [i \in TurnIds |-> <<>>]
  /\ touched = 0
  /\ outstanding = <<>>
  /\ abandoned = 0
  /\ consoleErrors = 0
  /\ undecodable = 0
  /\ pending = <<>>
  /\ shared = FALSE
  /\ built = [i \in TurnIds |-> None]

\* ------------------------------------------------- connection actions
\* The component is mounted, before the session provider has an identifier:
\* the effect runs connect() for the empty identifier.
Mount ==
  /\ pc = "idle"
  /\ ~mounted
  /\ sessionId = 0
  /\ CanConnect(sessionId, sockets)
  /\ LET co == connect(sessionId, [sockets |-> sockets, wsRef |-> wsRef])
     IN /\ sockets' = co.sockets
        /\ wsRef' = co.wsRef
  /\ mounted' = TRUE
  /\ UNCHANGED <<sessionId, timers, reconnectTimerRef, isConnected>>
  /\ UNCHANGED chatVars
  /\ UNCHANGED sendVars
  /\ UNCHANGED logVars
  /\ UNCHANGED queueVars
  /\ UNCHANGED serverVars

\* The session provider supplies the next identifier: connect is re-created,
\* the effect's cleanup runs and the effect runs connect() again.
SessionChange ==
  /\ pc = "idle"
  /\ mounted
  /\ sessionId < MaxSessions
  /\ LET sid == sessionId + 1
         cl == cleanup([sockets |-> sockets, timers |-> timers], wsRef, reconnectTimerRef)
     IN /\ CanConnect(sid, cl.sockets)
        /\ LET co == connect(sid, [sockets |-> cl.sockets, wsRef |-> wsRef])
           IN /\ sessionId' = sid
              /\ sockets' = co.sockets
              /\ wsRef' = co.wsRef
              /\ timers' = cl.timers
  /\ outstanding' = <<>>
  /\ UNCHANGED <<mounted, reconnectTimerRef, isConnected, abandoned>>
  /\ UNCHANGED chatVars
  /\ UNCHANGED sendVars
  /\ UNCHANGED logVars
  /\ UNCHANGED queueVars

\* The owning component unmounts: the effect's cleanup runs.
Unmount ==
  /\ pc = "idle"
  /\ mounted
  /\ LET cl == cleanup([sockets |-> sockets, timers |-> timers], wsRef, reconnectTimerRef)
     IN /\ sockets' = cl.sockets
        /\ timers' = cl.timers
  /\ mounted' = FALSE
  /\ UNCHANGED <<sessionId, wsRef, reconnectTimerRef, isConnected>>
  /\ UNCHANGED chatVars
  /\ UNCHANGED sendVars
  /\ UNCHANGED logVars
  /\ UNCHANGED queueVars
  /\ UNCHANGED serverVars

\* The browser establishes the connection of socket s: the open event.
SocketOpen(s) ==
  /\ pc = "idle"
  /\ sockets[s].st = "CONNECTING"
  /\ LET o == onopen([isConnected |-> isConnected, timers |-> timers,
                      reconnectTimerRef |-> reconnectTimerRef])
     IN /\ isConnected' = o.isConnected
        /\ timers' = o.timers
        /\ reconnectTimerRef' = o.reconnectTimerRef
  /\ sockets' = [sockets EXCEPT ![s].st = "OPEN"]
  /\ UNCHANGED <<sessionId, mounted, wsRef>>
  /\ UNCHANGED chatVars
  /\ UNCHANGED sendVars
  /\ UNCHANGED logVars
  /\ UNCHANGED queueVars
  /\ UNCHANGED serverVars

\* A wrong close handling: the in-progress message is dropped as well.
ClosureDropsCurrent(s, withError) ==
  /\ TimerSlots(timers) # {}
  /\ LET c2 == onclose(sockets[s].sid, [isConnected |-> isConnected, timers |-> timers,
                                        reconnectTimerRef |-> reconnectTimerRef])
     IN /\ isConnected' = c2.isConnected
        /\ timers' = c2.timers
        /\ reconnectTimerRef' = c2.reconnectTimerRef
  /\ sockets' = CollectSockets([sockets EXCEPT ![s].st = "CLOSED"], wsRef)
  /\ outstanding' = IF s = wsRef THEN <<>> ELSE outstanding
  /\ currentMsgRef' = None
  /\ UNCHANGED <<sessionId, mounted, wsRef, abandoned>>
  /\ UNCHANGED <<isLoading, messages, deltaLog, touched>>
  /\ UNCHANGED sendVars
  /\ UNCHANGED logVars
  /\ UNCHANGED queueVars

\* The state after socket s is closed and its close event is dispatched,
\* after an error event when withError.
Closure(s, withError) ==
  /\ TimerSlots(timers) # {}
  /\ LET c0 == [isConnected |-> isConnected, timers |-> timers,
                reconnectTimerRef |-> reconnectTimerRef]
         c1 == IF withError THEN onerror(c0) ELSE c0
         c2 == onclose(sockets[s].sid, c1)
     IN /\ isConnected' = c2.isConnected
        /\ timers' = c2.timers
        /\ reconnectTimerRef' = c2.reconnectTimerRef
  /\ sockets' = CollectSockets([sockets EXCEPT ![s].st = "CLOSED"], wsRef)
  /\ outstanding' = IF s = wsRef THEN <<>> ELSE outstanding
  /\ abandoned' = IF s = wsRef /\ IsSome(currentMsgRef) THEN currentMsgRef[1].id ELSE abandoned
  /\ UNCHANGED <<sessionId, mounted, wsRef>>
  /\ UNCHANGED chatVars
  /\ UNCHANGED sendVars
  /\ UNCHANGED logVars
  /\ UNCHANGED queueVars

\* The connection of socket s ends without an error: the server closes it,
\* or the closing handshake that close() started completes.
SocketClose(s) ==
  /\ pc = "idle"
  /\ sockets[s].st \in {"OPEN", "CLOSING"}
  /\ Closure(s, FALSE)

\* The connection attempt of socket s fails, or its connection breaks: the
\* error event, then the close event.
SocketFail(s) ==
  /\ pc = "idle"
  /\ sockets[s].st \in {"CONNECTING", "OPEN", "CLOSING"}
  /\ Closure(s, TRUE)

\* The reconnect timer t fires: its callback runs the connect it captured.
TimerFire(t) ==
  /\ pc = "idle"
  /\ timers[t].st = "PENDING"
  /\ CanConnect(timers[t].sid, sockets)
  /\ LET co == connect(timers[t].sid, [sockets |-> sockets, wsRef |-> wsRef])
     IN /\ sockets' = co.sockets
        /\ wsRef' = co.wsRef
  /\ timers' = CollectTimers([timers EXCEPT ![t].st = "DONE"], reconnectTimerRef)
  /\ outstanding' = <<>>
  /\ UNCHANGED <<sessionId, mounted, reconnectTimerRef, isConnected, abandoned>>
  /\ UNCHANGED chatVars
  /\ UNCHANGED sendVars
  /\ UNCHANGED logVars
  /\ UNCHANGED queueVars

NextConn ==
  \/ Mount
  \/ SessionChange
  \/ Unmount
  \/ \E s \in SockIds : SocketOpen(s)
  \/ \E s \in SockIds : SocketClose(s)
  \/ \E s \in SockIds : SocketFail(s)
  \/ \E t \in TimerIds : TimerFire(t)

SpecConn == Init /\ [][NextConn]_vars

\* No step of the model is held back by the slot bounds: a socket that can
\* close finds a timer slot, a timer that can fire finds a socket slot.
SlotsSuffice ==
  /\ (\E s \in SockIds : sockets[s].st \notin {"FREE", "CLOSED"}) => TimerSlots(timers) # {}
  /\ (\E t \in TimerIds : timers[t].st = "PENDING") => SocketSlots(sockets) # {}


\* ------------------------------------------------------------ transcript
\* A ChatMessage as the hook creates it: no tool status, no usage record.
NewMsg(id, role, content, charts, streaming) ==
  [id |-> id, role |-> role, content |-> content, charts |-> charts,
   isStreaming |-> streaming, toolStatus |-> None, tokenUsage |-> None]

\* The in-progress assistant message text_delta and chart create.
NewStreamingMsg(id) == NewMsg(id, "assistant", <<>>, <<>>, TRUE)

\* The message one bundled chart of message_end becomes.
NewChartMsg(id, chart) == NewMsg(id, "assistant", <<>>, <<chart>>, FALSE)

\* A wrong sendMessage: the echoed message is marked streaming.
NewUserMsgStreaming(id, content) == NewMsg(id, "user", content, <<>>, TRUE)

\* The message sendMessage echoes.
NewUserMsg(id, content) == NewMsg(id, "user", content, <<>>, FALSE)

\* The ids of the live messages of assembler state c = [ref, messages].
Alive(c) ==
  {c.messages[i].id : i \in DOMAIN c.messages}
  \cup (IF IsSome(c.ref) THEN {c.ref[1].id} ELSE {})

\* generateId(): an id no live message has.
generateId(used) ==
  CHOOSE i \in 1..(Cardinality(used) + 1) : i \notin used /\ \A j \in 1..(i - 1) : j \in used

\* The ids k successive generateId() calls return.
RECURSIVE generateIds(_, _)
generateIds(used, k) ==
  IF k = 0 THEN <<>>
  ELSE LET i == generateId(used) IN <<i>> \o generateIds(used \cup {i}, k - 1)

\* A wrong updateMsgById: the entry with the ref's id is moved to the end.
updateMsgByIdMovesLast(prev, ref) ==
  IF IsNone(ref) \/ \A i \in DOMAIN prev : prev[i].id # ref[1].id THEN prev
  ELSE Append(SelectSeq(prev, LAMBDA m : m.id # ref[1].id), ref[1])

\* updateMsgById: every entry with the ref's id replaced by a copy of the ref.
updateMsgById(prev, ref) ==
  IF IsNone(ref) THEN prev
  ELSE [i \in DOMAIN prev |-> IF prev[i].id = ref[1].id THEN ref[1] ELSE prev[i]]

\* A wrong text_delta / chart: a message is created whatever the state.
ensureCurrentAlways(c) ==
  LET newMsg == NewStreamingMsg(generateId(Alive(c)))
  IN [ref |-> Some(newMsg), messages |-> Append(c.messages, newMsg)]

\* `if (!currentMsgRef.current) { ...; currentMsgRef.current = newMsg;
\* setMessages((prev) => [...prev, newMsg]) }` of text_delta and chart.
ensureCurrent(c) ==
  IF IsNone(c.ref)
  THEN LET newMsg == NewStreamingMsg(generateId(Alive(c)))
       IN [ref |-> Some(newMsg), messages |-> Append(c.messages, newMsg)]
  ELSE c

\* A wrong text_delta: the delta is put in front of the content.
addContentInFront(msg, delta) == [msg EXCEPT !.content = delta \o @]

\* currentMsgRef.current.content += data.content
addContent(msg, delta) == [msg EXCEPT !.content = @ \o delta]

\* A wrong chart: the payload is put in front of the chart list.
addChartInFront(msg, chart) == [msg EXCEPT !.charts = <<chart>> \o @]

\* currentMsgRef.current.charts = [...currentMsgRef.current.charts, chartData]
addChart(msg, chart) == [msg EXCEPT !.charts = Append(@, chart)]

\* case "text_delta"
textDelta(delta, c) ==
  LET c1 == ensureCurrent(c)
      m == addContent(c1.ref[1], delta)
  IN [ref |-> Some(m), messages |-> updateMsgById(c1.messages, Some(m))]

\* case "chart"
chartFrame(chart, c) ==
  LET c1 == ensureCurrent(c)
      m == addChart(c1.ref[1], chart)
  IN [ref |-> Some(m), messages |-> updateMsgById(c1.messages, Some(m))]

\* A wrong tool_status: with no in-progress message one is created.
toolStatusCreates(label, c) ==
  LET c1 == ensureCurrent(c)
      m == [c1.ref[1] EXCEPT !.toolStatus = Some(label)]
  IN [ref |-> Some(m), messages |-> updateMsgById(c1.messages, Some(m))]

\* case "tool_status"
toolStatus(label, c) ==
  IF IsSome(c.ref)
  THEN LET m == [c.ref[1] EXCEPT !.toolStatus = Some(label)]
       IN [ref |-> Some(m), messages |-> updateMsgById(c.messages, Some(m))]
  ELSE c

\* A wrong token_usage: the tool status is cleared as well.
tokenUsageClearsStatus(usage, c) ==
  IF IsSome(c.ref)
  THEN LET m == [c.ref[1] EXCEPT !.tokenUsage = Some(usage), !.toolStatus = None]
       IN [ref |-> Some(m), messages |-> updateMsgById(c.messages, Some(m))]
  ELSE c

\* case "token_usage"
tokenUsage(usage, c) ==
  IF IsSome(c.ref)
  THEN LET m == [c.ref[1] EXCEPT !.tokenUsage = Some(usage)]
       IN [ref |-> Some(m), messages |-> updateMsgById(c.messages, Some(m))]
  ELSE c

\* A wrong message_end: the streaming flag is left as it is.
finalizeStillStreaming(msg, endUsage) ==
  [msg EXCEPT !.toolStatus = None,
              !.tokenUsage = IF IsSome(endUsage) THEN endUsage ELSE @]

\* A wrong message_end: the usage record is whatever the frame bundles, the
\* absent record included.
finalizeDropsUsage(msg, endUsage) ==
  [msg EXCEPT !.isStreaming = FALSE,
              !.toolStatus = None,
              !.tokenUsage = endUsage]

\* The in-progress message as message_end leaves it: not streaming, no tool
\* status, the bundled usage record if the frame has one.
finalize(msg, endUsage) ==
  [msg EXCEPT !.isStreaming = FALSE,
              !.toolStatus = None,
              !.tokenUsage = IF IsSome(endUsage) THEN endUsage ELSE @]

\* A wrong message_end: the bundled charts become messages in reverse order.
chartMessagesReversed(endCharts, used) ==
  IF IsSome(endCharts)
  THEN LET n == Len(endCharts[1])
           ids == generateIds(used, n)
       IN [k \in 1..n |-> NewChartMsg(ids[k], endCharts[1][n + 1 - k])]
  ELSE <<>>

\* The messages the bundled charts of message_end become.
chartMessages(endCharts, used) ==
  IF IsSome(endCharts)
  THEN LET ids == generateIds(used, Len(endCharts[1]))
       IN [k \in 1..Len(endCharts[1]) |-> NewChartMsg(ids[k], endCharts[1][k])]
  ELSE <<>>

\* currentMsgRef.current = null, the last statements of message_end and error.
clearCurrent(ref) == None

\* case "message_end".  The bundled charts get their ids when the in-progress
\* message is about to be dropped, so its id counts as used only if the
\* transcript has it.
messageEnd(endCharts, endUsage, c) ==
  LET done == IF IsSome(c.ref) THEN Some(finalize(c.ref[1], endUsage)) ELSE c.ref
      msgs1 == updateMsgById(c.messages, done)
      extra == chartMessages(endCharts, Alive([ref |-> None, messages |-> msgs1]))
  IN [ref |-> clearCurrent(done), messages |-> msgs1 \o extra]

\* A wrong error: the in-progress message is marked finished in the transcript.
errorFrameFinalizes(c) ==
  [ref |-> None,
   messages |-> [i \in DOMAIN c.messages |->
                   IF IsSome(c.ref) /\ c.messages[i].id = c.ref[1].id
                   THEN [c.messages[i] EXCEPT !.isStreaming = FALSE]
                   ELSE c.messages[i]]]

\* case "error"
errorFrame(c) == [ref |-> clearCurrent(c.ref), messages |-> c.messages]

\* A wrong clearMessages: the first turn is kept.
clearMessagesKeepsFirst(c) ==
  [ref |-> c.ref, messages |-> IF c.messages = <<>> THEN <<>> ELSE <<Head(c.messages)>>]

\* clearMessages: setMessages([]).
clearMessages(c) == [ref |-> c.ref, messages |-> <<>>]

\* ------------------------------------------------------ inbound frames
Assembler == [ref |-> currentMsgRef, messages |-> messages]

\* A message event can be dispatched: some socket is open (the hook installs
\* the same onmessage on every socket), and the component is mounted (the
\* state of an unmounted component is discarded).
Receiving ==
  /\ pc = "idle"
  /\ mounted
  /\ \E s \in SockIds : sockets[s].st = "OPEN"

\* The payload items a message holds: characters, charts, a status label,
\* a usage record.
Items(msg) == Len(msg.content) + Len(msg.charts) + Len(msg.toolStatus) + Len(msg.tokenUsage)

RECURSIVE SumItems(_)
SumItems(msgs) == IF msgs = <<>> THEN 0 ELSE Items(Head(msgs)) + SumItems(Tail(msgs))

\* The payload items the assistant messages hold: those of the transcript,
\* and the in-progress message when the transcript does not have it.
Data(c) ==
  SumItems(SelectSeq(c.messages, LAMBDA m : m.role = "assistant"))
  + (IF IsSome(c.ref) /\ \A i \in DOMAIN c.messages : c.messages[i].id # c.ref[1].id
     THEN Items(c.ref[1]) ELSE 0)

\* The bounds of the model on what the handlers may build.
WithinBounds(c) ==
  /\ Cardinality(Alive(c)) <= MaxTurns
  /\ Len(c.messages) <= MaxTurns
  /\ Data(c) <= MaxData

\* The history variables follow the live messages: a message that is no
\* longer alive has no log and is not the touched one.
LogOf(log, c) == [i \in TurnIds |-> IF i \in Alive(c) THEN log[i] ELSE <<>>]
TouchedOf(id, c) == IF id \in Alive(c) THEN id ELSE 0

\* The assembler state c, the delta log and the touched id become the state.
Assemble(c, log, id) ==
  /\ WithinBounds(c)
  /\ currentMsgRef' = c.ref
  /\ messages' = c.messages
  /\ deltaLog' = LogOf(log, c)
  /\ touched' = TouchedOf(id, c)
  /\ abandoned' = IF IsSome(c.ref) /\ c.ref[1].id = abandoned THEN abandoned ELSE 0
  /\ UNCHANGED <<sessionId, mounted>>
  /\ UNCHANGED connVars
  /\ UNCHANGED sendVars
  /\ UNCHANGED queueVars

\* The server answers the requests of a connection one after the other, on
\* that connection.  A frame that arrives while wsRef is the only open
\* socket and the server has taken the oldest outstanding request off the
\* wire can be part of the answer to that request; a frame that arrives
\* otherwise is one nobody asked for, and what was outstanding is no longer
\* known.
Attributable ==
  /\ wsRef # 0
  /\ sockets[wsRef].st = "OPEN"
  /\ \A s \in SockIds : sockets[s].st = "OPEN" => s = wsRef

Responding == Attributable /\ Len(outstanding) > Len(wire)

\* The user turn whose answer an arriving frame can belong to (0: none, or
\* the turn is gone).
Answering == IF Responding THEN Head(outstanding) ELSE 0

\* The history after a frame arrived; `terminal` when the frame ends an
\* answer (message_end, error).
Served(terminal) ==
  outstanding' = IF ~Responding THEN <<>>
                 ELSE IF terminal THEN Tail(outstanding)
                 ELSE outstanding

OnTextDelta(delta) ==
  /\ Receiving
  /\ LET c == textDelta(delta, Assembler)
         id == c.ref[1].id
     IN Assemble(c, [deltaLog EXCEPT ![id] = Append(@, delta)], id)
  /\ Served(FALSE)
  /\ UNCHANGED isLoading
  /\ UNCHANGED logVars

OnChart(chart) ==
  /\ Receiving
  /\ LET c == chartFrame(chart, Assembler)
     IN Assemble(c, deltaLog, c.ref[1].id)
  /\ Served(FALSE)
  /\ UNCHANGED isLoading
  /\ UNCHANGED logVars

OnToolStatus(label) ==
  /\ Receiving
  /\ Assemble(toolStatus(label, Assembler), deltaLog,
              IF IsSome(currentMsgRef) THEN currentMsgRef[1].id ELSE touched)
  /\ Served(FALSE)
  /\ UNCHANGED isLoading
  /\ UNCHANGED logVars

OnTokenUsage(usage) ==
  /\ Receiving
  /\ Assemble(tokenUsage(usage, Assembler), deltaLog,
              IF IsSome(currentMsgRef) THEN currentMsgRef[1].id ELSE touched)
  /\ Served(FALSE)
  /\ UNCHANGED isLoading
  /\ UNCHANGED logVars

OnMessageEnd(endCharts, endUsage) ==
  /\ Receiving
  /\ IsSome(endCharts) => Len(messages) + Len(endCharts[1]) <= MaxTurns
  /\ LET c == messageEnd(endCharts, endUsage, Assembler)
         appended == {c.messages[i].id : i \in (Len(messages) + 1)..Len(c.messages)}
     IN Assemble(c, [i \in TurnIds |-> IF i \in appended THEN <<>> ELSE deltaLog[i]],
                 IF appended # {} THEN c.messages[Len(c.messages)].id
                 ELSE IF IsSome(currentMsgRef) THEN currentMsgRef[1].id
                 ELSE touched)
  /\ Served(TRUE)
  /\ isLoading' = FALSE
  /\ UNCHANGED logVars

OnError ==
  /\ Receiving
  /\ Assemble(errorFrame(Assembler), deltaLog, touched)
  /\ Served(TRUE)
  /\ isLoading' = FALSE
  /\ UNCHANGED logVars

\* --------------------------------------------------- malformed frames
\* What `content += data.content` appends when the frame has no content
\* field: the text of JavaScript's undefined.
Undefined == <<"undefined">>

\* The inbound frames that are not one of the six typed events:
\*   "unparsable"   event.data is not JSON: JSON.parse throws;
\*   "unknown_tag"  JSON whose type is none of the six tags;
\*   "text_delta"   {type: "text_delta"} without a content field;
\*   "message_end"  {type: "message_end", charts: "ab"}: charts is a string.
Malformed == {"unparsable", "unknown_tag", "text_delta", "message_end"}

\* message_end whose charts field has a length and no map function: the
\* in-progress message is finalized and copied into the transcript, then
\* endCharts.map throws and the catch block ends the handler, before
\* `currentMsgRef.current = null` and `setIsLoading(false)`.
messageEndThrows(c) ==
  LET done == IF IsSome(c.ref) THEN Some(finalize(c.ref[1], None)) ELSE c.ref
  IN [ref |-> done, messages |-> updateMsgById(c.messages, done)]

\* The handler ends in its catch block, which writes one console.error
\* entry: JSON.parse threw, or endCharts.map did.  A frame whose tag is not
\* a case of the switch (which has no default) falls through it.
throws(kind) == kind \in {"unparsable", "message_end"}

\* The handler on a malformed frame: the assembler state it leaves.
malformed(kind, c) ==
  CASE kind = "unparsable" -> c
    [] kind = "unknown_tag" -> c
    [] kind = "text_delta" -> textDelta(Undefined, c)
    [] kind = "message_end" -> messageEndThrows(c)

OnMalformed(kind) ==
  /\ Receiving
  /\ LET c == malformed(kind, Assembler)
     IN Assemble(c, deltaLog,
                 IF kind \in {"text_delta", "message_end"} /\ IsSome(c.ref)
                 THEN c.ref[1].id ELSE touched)
  /\ Served(kind = "message_end")
  /\ throws(kind) => consoleErrors < MaxLog
  /\ consoleErrors' = IF throws(kind) THEN consoleErrors + 1 ELSE consoleErrors
  /\ kind \in {"unparsable", "unknown_tag"} => undecodable < MaxLog
  /\ undecodable' = IF kind \in {"unparsable", "unknown_tag"} THEN undecodable + 1 ELSE undecodable
  /\ UNCHANGED isLoading

NextMalformed == \E k \in Malformed : OnMalformed(k)

\* clearMessages, called by the container when a new analysis starts.
Reset ==
  /\ pc = "idle"
  /\ mounted
  /\ Assemble(clearMessages(Assembler), deltaLog, touched)
  /\ outstanding' = [i \in DOMAIN outstanding |-> 0]
  /\ UNCHANGED isLoading
  /\ UNCHANGED logVars

\* A wrong guard of sendMessage: a send while busy is refused.
canSendNotBusy(wref, socks) == wref # 0 /\ socks[wref].st = "OPEN" /\ ~isLoading

\* A wrong guard of sendMessage: the readyState is not looked at.
canSendAnyState(wref, socks) == wref # 0

\* ----------------------------------------------------------- sendMessage
\* `if (!wsRef.current || wsRef.current.readyState !== WebSocket.OPEN) return`
canSend(wref, socks) == wref # 0 /\ socks[wref].st = "OPEN"

\* A wrong sendMessage: ws.send before the state updates.
sendPlanTransmitFirst == <<"transmit", "update">>

\* The statements of sendMessage after its guard, in program order: the
\* state updates (setMessages, setIsLoading), then ws.send.
sendPlan == <<"update", "transmit">>

\* A wrong sendMessage: the busy flag is left as it is.
sendUpdateNotBusy(text) ==
  /\ messages' = Append(messages, NewUserMsg(generateId(Alive(Assembler)), text))
  /\ UNCHANGED <<isLoading, wire>>

\* setMessages((prev) => [...prev, userMsg]); setIsLoading(true)
sendUpdate(text) ==
  /\ messages' = Append(messages, NewUserMsg(generateId(Alive(Assembler)), text))
  /\ isLoading' = TRUE
  /\ UNCHANGED wire

\* wsRef.current.send(JSON.stringify({ message: content })): one frame, on
\* the socket wsRef points to.
sendTransmit(text) ==
  /\ wire' = Append(wire, [sid |-> sockets[wsRef].sid, message |-> text])
  /\ UNCHANGED <<messages, isLoading>>

sendStep(k, text) ==
  IF sendPlan[k] = "update" THEN sendUpdate(text) ELSE sendTransmit(text)

\* sendMessage(text) is called with the connection open: the guard passes
\* and the first statement after it runs.
Send(text) ==
  /\ pc = "idle"
  /\ mounted
  /\ canSend(wsRef, sockets)
  /\ Len(wire) < MaxWire
  /\ Len(messages) < MaxTurns
  /\ Cardinality(Alive(Assembler)) < MaxTurns
  /\ Len(outstanding) < MaxOutstanding
  /\ sendStep(1, text)
  /\ pc' = "send"
  /\ sendArg' = text
  /\ outstanding' = Append(outstanding, generateId(Alive(Assembler)))
  /\ UNCHANGED <<sessionId, mounted, currentMsgRef, deltaLog, touched, abandoned>>
  /\ UNCHANGED connVars
  /\ UNCHANGED logVars
  /\ UNCHANGED queueVars

\* The rest of the sendMessage call in progress.
SendRest ==
  /\ pc = "send"
  /\ sendStep(2, sendArg)
  /\ pc' = "idle"
  /\ sendArg' = <<>>
  /\ UNCHANGED <<sessionId, mounted, currentMsgRef, deltaLog, touched>>
  /\ UNCHANGED connVars
  /\ UNCHANGED serverVars
  /\ UNCHANGED logVars
  /\ UNCHANGED queueVars

\* ------------------------------------------------------------ chat input
\* What the user can have typed in the textarea of the chat input.
Inputs == {<<>>, <<" ">>, <<"h">>, <<" ", "h">>, <<"h", " ">>}

\* The prompt tips: the queries of TIP_CATEGORIES.
Tips == Texts

\* String.prototype.trim(): leading and trailing white space removed.
RECURSIVE trimStart(_)
trimStart(str) ==
  IF str # <<>> /\ Head(str) = " " THEN trimStart(Tail(str)) ELSE str

RECURSIVE trimEnd(_)
trimEnd(str) ==
  IF str # <<>> /\ str[Len(str)] = " " THEN trimEnd(SubSeq(str, 1, Len(str) - 1)) ELSE str

trim(str) == trimEnd(trimStart(str))

\* The chat input's handleSubmit passes its guard
\* `if (!trimmed || isLoading) return` and calls onSend, which is sendMessage.
handleSubmitPasses(input, loading) == trim(input) # <<>> /\ ~loading

\* The textarea takes key events: `disabled={!isConnected}`.
textareaEnabled(connected) == connected

\* The send button takes clicks:
\* `disabled={(!input.trim() && !isLoading) || !isConnected}`.
buttonEnabled(input, loading, connected) ==
  ~((trim(input) = <<>> /\ ~loading) \/ ~connected)

\* sendMessage(text) is called and its guard returns.
SendRefused(text) ==
  /\ pc = "idle"
  /\ mounted
  /\ ~canSend(wsRef, sockets)
  /\ UNCHANGED vars

\* isReady of useSession, which is set with the first identifier: the
\* container renders the chat input only when it is true.
isReady == sessionId # 0

\* onSend of the chat input: the container passes sendMessage.
onSend(text) == Send(text) \/ SendRefused(text)

\* The user presses Enter in the textarea or clicks the send button with
\* `input` typed: handleSubmit runs, passes its guard and calls onSend with
\* the trimmed text.  (The input's own state, the text and the open tips
\* popup, is what the user makes it and is not kept.)
handleSubmit(input) ==
  /\ isReady
  /\ textareaEnabled(isConnected) \/ buttonEnabled(input, isLoading, isConnected)
  /\ handleSubmitPasses(input, isLoading)
  /\ trim(input) \in Texts
  /\ onSend(trim(input))

\* The user clicks a query of the prompt tips popup, which the tips button
\* opens: handleTipClick calls onSend with the query.
handleTipClick(query) ==
  /\ isReady
  /\ onSend(query)

\* The server takes the oldest outbound frame off the connection.
ServerReceive ==
  /\ pc = "idle"
  /\ wire # <<>>
  /\ wire' = Tail(wire)
  /\ UNCHANGED <<sessionId, mounted, pc, sendArg>>
  /\ UNCHANGED connVars
  /\ UNCHANGED chatVars
  /\ UNCHANGED serverVars
  /\ UNCHANGED logVars
  /\ UNCHANGED queueVars

\* ------------------------------------------------------------------ next
NextChat ==
  \/ \E d \in Deltas : OnTextDelta(d)
  \/ \E ch \in Charts : OnChart(ch)
  \/ \E l \in Labels : OnToolStatus(l)
  \/ \E u \in Usages : OnTokenUsage(u)
  \/ \E ec \in EndCharts, eu \in EndUsages : OnMessageEnd(ec, eu)
  \/ OnError
  \/ Reset
  \/ \E t \in Texts : Send(t)
  \/ SendRest
  \/ \E t \in Texts : SendRefused(t)
  \/ ServerReceive

\* The hook in full.
Next == NextConn \/ NextChat \/ NextMalformed

Spec == Init /\ [][Next]_vars

\* The connection of one session: the identifier arrives once and the
\* component stays mounted.
NextOneSession ==
  \/ Mount
  \/ (sessionId = 0 /\ SessionChange)
  \/ \E s \in SockIds : SocketOpen(s)
  \/ \E s \in SockIds : SocketClose(s)
  \/ \E s \in SockIds : SocketFail(s)
  \/ \E t \in TimerIds : TimerFire(t)

\* The transcript assembler and the facade over the connection of one session.
SpecChat == Init /\ [][NextOneSession \/ NextChat]_vars

\* The same with the frames no well-behaved server sends.
SpecFrames == Init /\ [][NextOneSession \/ NextChat \/ NextMalformed]_vars

\* The hook facing a server that sends frames only as answers: every inbound
\* frame is part of the answer to the oldest request it has taken.
NextServed ==
  \/ (Responding /\ \E d \in Deltas : OnTextDelta(d))
  \/ (Responding /\ \E ch \in Charts : OnChart(ch))
  \/ (Responding /\ \E l \in Labels : OnToolStatus(l))
  \/ (Responding /\ \E u \in Usages : OnTokenUsage(u))
  \/ (Responding /\ \E ec \in EndCharts, eu \in EndUsages : OnMessageEnd(ec, eu))
  \/ (Responding /\ OnError)
  \/ Reset
  \/ \E t \in Texts : Send(t)
  \/ SendRest
  \/ \E t \in Texts : SendRefused(t)
  \/ ServerReceive

SpecServed == Init /\ [][NextOneSession \/ NextServed]_vars

\* The hook with the chat input as the caller of sendMessage.
NextInput ==
  \/ \E d \in Deltas : OnTextDelta(d)
  \/ \E ch \in Charts : OnChart(ch)
  \/ \E l \in Labels : OnToolStatus(l)
  \/ \E u \in Usages : OnTokenUsage(u)
  \/ \E ec \in EndCharts, eu \in EndUsages : OnMessageEnd(ec, eu)
  \/ OnError
  \/ Reset
  \/ \E i \in Inputs : handleSubmit(i)
  \/ \E q \in Tips : handleTipClick(q)
  \/ SendRest
  \/ ServerReceive

SpecInput == Init /\ [][NextOneSession \/ NextInput]_vars

\* ------------------------------------------- deferred transcript updates
\* React does not run the function passed to setMessages when it is passed:
\* it queues it and runs the queue, oldest first, when it renders next; a
\* function passed while nothing is queued may be run at once instead (it is
\* queued all the same, with its result).  The
\* functions the handlers pass read currentMsgRef.current when they run.
\* The actions above run every update where it is passed; the actions below
\* queue them.  A ChatMessage the handler creates and appends is one object:
\* until a copy replaces it in the transcript, what the handler assigns to
\* the object shows in the transcript as well (`shared`).

\* setMessages((prev) => [...prev, ...msgs])
appendUp(msgs) == [op |-> "append", msgs |-> msgs]
\* setMessages((prev) => updateMsgById(prev, currentMsgRef.current))
updateUp == [op |-> "update", msgs |-> <<>>]
\* setMessages([])
clearUp == [op |-> "clear", msgs |-> <<>>]
\* An update that ran when it was passed: it stays in the queue, with its
\* result, until the next render.
ranUp == [op |-> "ran", msgs |-> <<>>]

idsOf(msgs) == {msgs[i].id : i \in DOMAIN msgs}

\* The messages the append updates of a queue hold.
RECURSIVE payload(_)
payload(q) == IF q = <<>> THEN <<>> ELSE Head(q).msgs \o payload(Tail(q))

\* One queued update runs on r = [messages, shared], with ref the value of
\* currentMsgRef.current at that time: a copy of ref replaces the entry of
\* its id, which from then on is not the object ref points to.
applyUp(up, r, ref) ==
  CASE up.op = "append" -> [messages |-> r.messages \o up.msgs, shared |-> r.shared]
    [] up.op = "update" ->
         [messages |-> updateMsgById(r.messages, ref),
          shared |-> r.shared /\ ~(IsSome(ref) /\ ref[1].id \in idsOf(r.messages))]
    [] up.op = "clear" -> [messages |-> <<>>, shared |-> r.shared]
    [] up.op = "ran" -> r

\* The queue runs, oldest update first.
RECURSIVE applyAll(_, _, _)
applyAll(q, r, ref) ==
  IF q = <<>> THEN r ELSE applyAll(Tail(q), applyUp(Head(q), r, ref), ref)

\* The ids of the ChatMessage objects in existence.
Held == {i \in TurnIds : IsSome(built[i])}

\* The ids of the objects the transcript, the queue and the ref reach.
Reached(msgs, q, ref) ==
  idsOf(msgs) \cup idsOf(payload(q)) \cup (IF IsSome(ref) THEN {ref[1].id} ELSE {})

\* The objects in existence after the handlers built or assigned to `objs`
\* and only the ids of `live` are reached.
builtAfter(objs, live) ==
  [i \in TurnIds |->
     IF i \notin live THEN None
     ELSE IF i \in idsOf(objs) THEN Some(objs[CHOOSE k \in DOMAIN objs : objs[k].id = i])
     ELSE built[i]]

\* The payload items the assistant messages in existence hold.
BuiltData(b) ==
  LET sel == SelectSeq(b, LAMBDA o : IsSome(o) /\ o[1].role = "assistant")
  IN SumItems([k \in DOMAIN sel |-> sel[k][1]])

\* What a handler does, as h = [mref, ref, ups]: it leaves the in-progress
\* object as mref (before a `currentMsgRef.current = null`), passes the
\* updates ups to setMessages and leaves currentMsgRef.current as ref.
\* The object text_delta and chart assign to: the in-progress one, or the
\* one they create.
current == IF IsNone(currentMsgRef) THEN NewStreamingMsg(generateId(Held)) ELSE currentMsgRef[1]

\* case "text_delta" and case "chart", which leave the object as m.
hContent(m) ==
  [mref |-> Some(m), ref |-> Some(m),
   ups |-> (IF IsNone(currentMsgRef) THEN <<appendUp(<<m>>)>> ELSE <<>>) \o <<updateUp>>]

\* case "tool_status"
hToolStatus(label) ==
  IF IsSome(currentMsgRef)
  THEN LET m == [currentMsgRef[1] EXCEPT !.toolStatus = Some(label)]
       IN [mref |-> Some(m), ref |-> Some(m), ups |-> <<updateUp>>]
  ELSE [mref |-> None, ref |-> None, ups |-> <<>>]

\* case "token_usage"
hTokenUsage(usage) ==
  IF IsSome(currentMsgRef)
  THEN LET m == [currentMsgRef[1] EXCEPT !.tokenUsage = Some(usage)]
       IN [mref |-> Some(m), ref |-> Some(m), ups |-> <<updateUp>>]
  ELSE [mref |-> None, ref |-> None, ups |-> <<>>]

\* case "message_end"
hMessageEnd(endCharts, endUsage) ==
  LET done == IF IsSome(currentMsgRef) THEN Some(finalize(currentMsgRef[1], endUsage)) ELSE None
      extra == chartMessages(endCharts, Held)
  IN [mref |-> done, ref |-> clearCurrent(done),
      ups |-> (IF IsSome(done) THEN <<updateUp>> ELSE <<>>)
              \o (IF extra # <<>> THEN <<appendUp(extra)>> ELSE <<>>)]

\* case "error"
hError == [mref |-> currentMsgRef, ref |-> clearCurrent(currentMsgRef), ups |-> <<>>]

\* sendMessage after its guard
hSend(text) ==
  [mref |-> currentMsgRef, ref |-> currentMsgRef,
   ups |-> <<appendUp(<<NewUserMsg(generateId(Held), text)>>)>>]

\* clearMessages
hClear == [mref |-> currentMsgRef, ref |-> currentMsgRef, ups |-> <<clearUp>>]

\* The handler h runs.  What it assigned to the in-progress object shows
\* where the object itself is held; its first update runs at once when
\* `eager` (nothing is queued), the others are queued.
Handle(h, eager) ==
  LET assigned(msgs) ==
        IF shared /\ IsSome(currentMsgRef) /\ IsSome(h.mref)
        THEN [i \in DOMAIN msgs |-> IF msgs[i].id = h.mref[1].id THEN h.mref[1] ELSE msgs[i]]
        ELSE msgs
      q0 == [k \in DOMAIN pending |-> [pending[k] EXCEPT !.msgs = assigned(@)]]
      r0 == [messages |-> assigned(messages),
             shared |-> shared \/ (IsNone(currentMsgRef) /\ IsSome(h.ref))]
      r1 == IF eager THEN applyUp(Head(h.ups), r0, h.mref) ELSE r0
      q1 == q0 \o (IF eager THEN <<ranUp>> \o Tail(h.ups) ELSE h.ups)
      objs == h.mref \o payload(h.ups)
      live == Reached(r1.messages, q1, h.ref)
  IN /\ eager => (pending = <<>> /\ h.ups # <<>>)
     /\ idsOf(objs) \subseteq TurnIds
     /\ Len(q1) <= MaxPending
     /\ BuiltData(builtAfter(objs, live)) <= MaxData
     /\ messages' = r1.messages
     /\ pending' = q1
     /\ currentMsgRef' = h.ref
     /\ shared' = (r1.shared /\ IsSome(h.ref) /\ h.ref[1].id \in idsOf(r1.messages) \cup idsOf(payload(q1)))
     /\ built' = builtAfter(objs, live)
     /\ UNCHANGED <<sessionId, mounted, pc, sendArg, deltaLog, touched>>
     /\ UNCHANGED connVars
     /\ UNCHANGED serverVars
     /\ UNCHANGED logVars

DeferredTextDelta(delta, eager) ==
  /\ Receiving
  /\ Handle(hContent(addContent(current, delta)), eager)
  /\ UNCHANGED <<isLoading, wire>>

DeferredChart(chart, eager) ==
  /\ Receiving
  /\ Handle(hContent(addChart(current, chart)), eager)
  /\ UNCHANGED <<isLoading, wire>>

DeferredToolStatus(label, eager) ==
  /\ Receiving
  /\ Handle(hToolStatus(label), eager)
  /\ UNCHANGED <<isLoading, wire>>

DeferredTokenUsage(usage, eager) ==
  /\ Receiving
  /\ Handle(hTokenUsage(usage), eager)
  /\ UNCHANGED <<isLoading, wire>>

DeferredMessageEnd(endCharts, endUsage, eager) ==
  /\ Receiving
  /\ Handle(hMessageEnd(endCharts, endUsage), eager)
  /\ isLoading' = FALSE
  /\ UNCHANGED wire

DeferredError ==
  /\ Receiving
  /\ Handle(hError, FALSE)
  /\ isLoading' = FALSE
  /\ UNCHANGED wire

DeferredSend(text, eager) ==
  /\ pc = "idle"
  /\ mounted
  /\ canSend(wsRef, sockets)
  /\ Len(wire) < MaxWire
  /\ Handle(hSend(text), eager)
  /\ isLoading' = TRUE
  /\ wire' = Append(wire, [sid |-> sockets[wsRef].sid, message |-> text])

DeferredReset(eager) ==
  /\ pc = "idle"
  /\ mounted
  /\ Handle(hClear, eager)
  /\ UNCHANGED <<isLoading, wire>>

\* React renders: the queued updates run and the transcript the consumers
\* read is the result.
Render ==
  /\ pc = "idle"
  /\ mounted
  /\ pending # <<>>
  /\ LET r == applyAll(pending, [messages |-> messages, shared |-> shared], currentMsgRef)
     IN /\ messages' = r.messages
        /\ shared' = (r.shared /\ IsSome(currentMsgRef) /\ currentMsgRef[1].id \in idsOf(r.messages))
        /\ built' = builtAfter(<<>>, Reached(r.messages, <<>>, currentMsgRef))
  /\ pending' = <<>>
  /\ UNCHANGED <<sessionId, mounted, isLoading, currentMsgRef, deltaLog, touched>>
  /\ UNCHANGED connVars
  /\ UNCHANGED sendVars
  /\ UNCHANGED serverVars
  /\ UNCHANGED logVars

NextDeferred ==
  \/ \E d \in Deltas, e \in BOOLEAN : DeferredTextDelta(d, e)
  \/ \E ch \in Charts, e \in BOOLEAN : DeferredChart(ch, e)
  \/ \E l \in Labels, e \in BOOLEAN : DeferredToolStatus(l, e)
  \/ \E u \in Usages, e \in BOOLEAN : DeferredTokenUsage(u, e)
  \/ \E ec \in EndCharts, eu \in EndUsages, e \in BOOLEAN : DeferredMessageEnd(ec, eu, e)
  \/ DeferredError
  \/ \E t \in Texts, e \in BOOLEAN : DeferredSend(t, e)
  \/ \E e \in BOOLEAN : DeferredReset(e)
  \/ Render
  \/ ServerReceive

\* A connection that is made and stays.
NextUp ==
  \/ Mount
  \/ (sessionId = 0 /\ SessionChange)
  \/ \E s \in SockIds : SocketOpen(s)

\* The hook with React queueing the transcript updates.
SpecDeferred == Init /\ [][NextUp \/ NextDeferred]_vars

TypeOK ==
  /\ sessionId \in SessionIds
  /\ mounted \in BOOLEAN
  /\ wsRef \in {0} \cup SockIds
  /\ reconnectTimerRef \in {0} \cup TimerIds
  /\ \A s \in SockIds : sockets[s].st \in {"FREE", "CONNECTING", "OPEN", "CLOSING", "CLOSED"}
  /\ \A t \in TimerIds : timers[t].st \in {"FREE", "PENDING", "DONE"}
  /\ isConnected \in BOOLEAN
  /\ isLoading \in BOOLEAN
  /\ Len(currentMsgRef) <= 1
  /\ Len(messages) <= MaxTurns
  /\ Alive(Assembler) \subseteq TurnIds
  /\ touched \in {0} \cup TurnIds
  /\ pc \in {"idle", "send"}
  /\ abandoned \in {0} \cup TurnIds
  /\ Len(outstanding) <= MaxOutstanding
  /\ \A i \in DOMAIN outstanding : outstanding[i] \in {0} \cup TurnIds
  /\ consoleErrors \in 0..MaxLog
  /\ undecodable \in 0..MaxLog
  /\ Len(pending) <= MaxPending
  /\ shared \in BOOLEAN
  /\ \A k \in DOMAIN pending : pending[k].op \in {"append", "update", "clear", "ran"}
  /\ Held \subseteq TurnIds

\* ================================================================ claims
RECURSIVE Cat(_)
Cat(log) == IF log = <<>> THEN <<>> ELSE Head(log) \o Cat(Tail(log))

MessageEndStep == \E ec \in EndCharts, eu \in EndUsages : OnMessageEnd(ec, eu)
ResetStep == Reset
LiveSockets == {s \in SockIds : sockets[s].st \in {"CONNECTING", "OPEN"}}
PendingTimers == {t \in TimerIds : timers[t].st = "PENDING"}
NotOpen == wsRef = 0 \/ sockets[wsRef].st # "OPEN"

\* C1: the content of an assistant turn is, after every event, the
\* concatenation in arrival order of the text_delta contents applied to it;
\* this holds of the in-progress object and of its entry in the transcript,
\* while it streams and after message_end finalizes it.
C1_ContentIsConcatenation ==
  /\ \A i \in DOMAIN messages :
       messages[i].role = "assistant" => messages[i].content = Cat(deltaLog[messages[i].id])
  /\ IsSome(currentMsgRef) => currentMsgRef[1].content = Cat(deltaLog[currentMsgRef[1].id])

\* A finalized turn built from two different deltas.
C1_Witness ==
  \E i \in DOMAIN messages :
    /\ messages[i].role = "assistant"
    /\ ~messages[i].isStreaming
    /\ messages[i].content = <<"a", "b">>
    /\ deltaLog[messages[i].id] = << <<"a">>, <<"b">> >>

\* C2 as stated: after every message_end the in-progress reference is null
\* and the most recently touched assistant turn is not streaming.
C2_Original ==
  [][MessageEndStep =>
       /\ IsNone(currentMsgRef')
       /\ \A i \in DOMAIN messages' :
            messages'[i].id = touched' => ~messages'[i].isStreaming]_vars

\* C2 amended: after every message_end the in-progress reference is null,
\* the turn that was in progress when the event arrived and every turn the
\* event appended are not streaming; so the most recently touched assistant
\* turn is not streaming whenever the event itself touched a turn.
C2_MessageEndFinalizes ==
  [][MessageEndStep =>
       /\ IsNone(currentMsgRef')
       /\ IsSome(currentMsgRef) =>
            \A i \in DOMAIN messages' :
              messages'[i].id = currentMsgRef[1].id => ~messages'[i].isStreaming
       /\ \A i \in (Len(messages) + 1)..Len(messages') : ~messages'[i].isStreaming
       /\ (IsSome(currentMsgRef) \/ Len(messages') > Len(messages)) =>
            \A i \in DOMAIN messages' :
              messages'[i].id = touched' => ~messages'[i].isStreaming]_vars

\* A turn message_end finalized: idle, with a non-streaming assistant turn
\* that has text.
C2_Witness ==
  /\ IsNone(currentMsgRef)
  /\ \E i \in DOMAIN messages :
       /\ messages[i].role = "assistant"
       /\ messages[i].id = touched
       /\ ~messages[i].isStreaming
       /\ messages[i].content # <<>>

\* C3 as stated: whenever the in-progress reference is non-null, it is a turn
\* of the transcript, and no assistant turn was appended after it.
C3_InProgressInTranscript ==
  IsSome(currentMsgRef) =>
    \E i \in DOMAIN messages :
      /\ messages[i] = currentMsgRef[1]
      /\ \A j \in (i + 1)..Len(messages) : messages[j].role # "assistant"

\* C4: a send with the connection open appends one user turn (content the
\* text, not streaming, no charts) at the end of the transcript and sets the
\* busy flag without transmitting; the frame {message: text} is transmitted
\* after that, and it is the only frame of the call.
C4_EchoBeforeTransmit ==
  [][/\ (pc = "idle" /\ pc' = "send") =>
          /\ Len(messages') = Len(messages) + 1
          /\ SubSeq(messages', 1, Len(messages)) = messages
          /\ LET m == messages'[Len(messages')]
             IN /\ m.role = "user"
                /\ m.content = sendArg'
                /\ ~m.isStreaming
                /\ m.charts = <<>>
          /\ isLoading'
          /\ wire' = wire
     /\ Len(wire') > Len(wire) =>
          /\ pc = "send" /\ pc' = "idle"
          /\ wire' = Append(wire, [sid |-> sockets[wsRef].sid, message |-> sendArg])
          /\ isLoading
          /\ messages # <<>>
          /\ messages[Len(messages)].role = "user"
          /\ messages[Len(messages)].content = sendArg
          /\ messages' = messages
     /\ pc = "send" => Len(wire') = Len(wire) + 1]_vars

\* The frame of a send is on the wire, its user turn is in the transcript
\* and the busy flag is set.
C4_Witness ==
  /\ pc = "idle"
  /\ wire = << [sid |-> 1, message |-> <<"h">>] >>
  /\ isLoading
  /\ \E i \in DOMAIN messages : messages[i].role = "user" /\ messages[i].content = <<"h">>

\* C5: a sendMessage call while wsRef holds no open socket changes neither
\* the transcript, the busy flag nor the in-progress reference, and
\* transmits nothing.
C5_SendWhileClosedIsNoOp ==
  [][(NotOpen /\ \E t \in Texts : Send(t) \/ SendRefused(t)) =>
       UNCHANGED <<messages, isLoading, currentMsgRef, wire, pc>>]_vars

\* A refused send leaves the state where it found it: the connection was
\* lost with a turn in the transcript and the busy flag set.
C5_Witness ==
  /\ mounted
  /\ pc = "idle"
  /\ wsRef # 0
  /\ sockets[wsRef].st = "CLOSED"
  /\ messages # <<>>
  /\ isLoading
  /\ ENABLED (\E t \in Texts : SendRefused(t))

\* C6: every closure of a socket sets the connected flag to false and
\* schedules exactly one timer, held by reconnectTimerRef, whose callback is
\* the connect of that socket; a timer that fires creates exactly one socket
\* and never fires again.
C6_ClosureSchedulesOneReconnect ==
  [][/\ \A s \in SockIds :
          (sockets[s].st \in {"CONNECTING", "OPEN", "CLOSING"} /\ sockets'[s].st \in {"CLOSED", "FREE"}) =>
            /\ ~isConnected'
            /\ Cardinality(PendingTimers') = Cardinality(PendingTimers) + 1
            /\ PendingTimers \subseteq PendingTimers'
            /\ reconnectTimerRef' \in PendingTimers' \ PendingTimers
            /\ timers'[reconnectTimerRef'].sid = sockets[s].sid
     /\ \A t \in TimerIds :
          TimerFire(t) =>
            /\ t \notin PendingTimers'
            /\ Cardinality(LiveSockets') = Cardinality(LiveSockets) + 1
            /\ sockets'[wsRef'] = [st |-> "CONNECTING", sid |-> timers[t].sid]]_vars

\* A closure has scheduled its reconnect.
C6_Witness ==
  /\ ~isConnected
  /\ reconnectTimerRef # 0
  /\ timers[reconnectTimerRef] = [st |-> "PENDING", sid |-> 1]
  /\ wsRef # 0
  /\ sockets[wsRef].st = "CLOSED"

\* C7 as stated: while the owning component is mounted, a closure of the
\* connection of the current session is followed by a connection attempt:
\* the timer the closure scheduled goes away only with a new socket for that
\* session being created.
C7_ClosureIsFollowedByAttempt ==
  [][\A t \in TimerIds :
       (/\ mounted'
        /\ timers[t] = [st |-> "PENDING", sid |-> sessionId]
        /\ timers'[t].st # "PENDING") =>
         \E s \in SockIds :
           /\ sockets[s].st # "CONNECTING"
           /\ sockets'[s] = [st |-> "CONNECTING", sid |-> sessionId']]_vars

\* C8 as stated: at most one socket is connecting or open at any time.
C8_AtMostOneConnection == Cardinality(LiveSockets) <= 1

\* C9 as stated: after the cleanup of an unmount no timer is scheduled and
\* no socket is created.
C9_NoReconnectAfterTeardown ==
  [][~mounted =>
       /\ PendingTimers' \subseteq PendingTimers
       /\ \A s \in SockIds : sockets'[s].st = "CONNECTING" => sockets[s].st = "CONNECTING"]_vars

\* C10 as stated: after reset the in-progress reference is null.
C10_ResetForcesIdle == [][ResetStep => IsNone(currentMsgRef')]_vars

\* ------------------------------------------------------------ C11 .. C20
Ids(msgs) == [i \in DOMAIN msgs |-> msgs[i].id]
IdSet(msgs) == {msgs[i].id : i \in DOMAIN msgs}
Connection == <<wsRef, isConnected, reconnectTimerRef, sockets, timers>>

\* C11: reset empties the transcript and leaves the connection as it is:
\* wsRef, the connected flag, the reconnect timer ref, every socket and every
\* timer are the same before and after clearMessages.
C11_ResetLeavesConnection ==
  [][ResetStep => (messages' = <<>> /\ UNCHANGED Connection)]_vars

\* A reset emptied the transcript in mid-stream and the connection is still
\* open and reported connected.
C11_Witness ==
  /\ messages = <<>>
  /\ IsSome(currentMsgRef)
  /\ isConnected
  /\ wsRef # 0
  /\ sockets[wsRef].st = "OPEN"

\* C12: a text_delta that arrives with no in-progress message appends one
\* assistant turn with a fresh id at the end of the transcript, its content
\* the delta, no charts, streaming, and the in-progress reference is that
\* turn; a text_delta that arrives with an in-progress message leaves the
\* number of turns as it is.
C12_TextDeltaCreatesOrKeeps ==
  [][\A d \in Deltas :
       OnTextDelta(d) =>
         IF IsNone(currentMsgRef)
         THEN /\ Len(messages') = Len(messages) + 1
              /\ SubSeq(messages', 1, Len(messages)) = messages
              /\ LET m == messages'[Len(messages')]
                 IN /\ m = NewMsg(m.id, "assistant", d, <<>>, TRUE)
                    /\ m.id \notin IdSet(messages)
                    /\ currentMsgRef' = Some(m)
         ELSE Len(messages') = Len(messages)]_vars

\* A text_delta created the in-progress turn after a user turn, and a second
\* one was applied to it without a new turn.
C12_Witness ==
  /\ Len(messages) = 2
  /\ messages[1].role = "user"
  /\ IsSome(currentMsgRef)
  /\ messages[2] = currentMsgRef[1]
  /\ messages[2].isStreaming
  /\ deltaLog[messages[2].id] = << <<"b">>, <<"a">> >>

\* C13: a chart that arrives with no in-progress message appends one
\* assistant turn with a fresh id, empty content, that one chart, streaming,
\* and the in-progress reference is that turn; a chart that arrives with an
\* in-progress message puts the payload at the end of that message's chart
\* list and leaves the number of turns as it is.
C13_ChartCreatesOrAppends ==
  [][\A ch \in Charts :
       OnChart(ch) =>
         IF IsNone(currentMsgRef)
         THEN /\ Len(messages') = Len(messages) + 1
              /\ SubSeq(messages', 1, Len(messages)) = messages
              /\ LET m == messages'[Len(messages')]
                 IN /\ m = NewMsg(m.id, "assistant", <<>>, <<ch>>, TRUE)
                    /\ m.id \notin IdSet(messages)
                    /\ currentMsgRef' = Some(m)
         ELSE /\ Len(messages') = Len(messages)
              /\ currentMsgRef' = Some([currentMsgRef[1] EXCEPT !.charts = Append(@, ch)])
              /\ \A i \in DOMAIN messages :
                   messages'[i] = IF messages[i].id = currentMsgRef[1].id
                                  THEN currentMsgRef'[1] ELSE messages[i]]_vars

\* A chart created the in-progress turn and a second chart was put behind
\* the first.
C13_Witness ==
  /\ IsSome(currentMsgRef)
  /\ currentMsgRef[1].charts = <<"spec1", "spec2">>
  /\ currentMsgRef[1].content = <<>>
  /\ \E i \in DOMAIN messages : messages[i] = currentMsgRef[1]

\* C14: a message_end with k bundled charts appends k assistant turns with
\* fresh, distinct ids, the j-th with empty content, the j-th payload as its
\* only chart, not streaming, no tool status and no usage; the turns before
\* them keep their places and ids, the one the event finalized included, and
\* with no in-progress message they are left as they were.
C14_MessageEndAppendsCharts ==
  [][\A ec \in EndCharts, eu \in EndUsages :
       OnMessageEnd(ec, eu) =>
         LET k == IF IsSome(ec) THEN Len(ec[1]) ELSE 0
             n == Len(messages)
         IN /\ Len(messages') = n + k
            /\ \A j \in 1..k :
                 /\ messages'[n + j] =
                      NewMsg(messages'[n + j].id, "assistant", <<>>, <<ec[1][j]>>, FALSE)
                 /\ messages'[n + j].id \notin IdSet(messages)
                 /\ \A l \in 1..k : l # j => messages'[n + l].id # messages'[n + j].id
            /\ \A i \in 1..n : messages'[i].id = messages[i].id
            /\ IsNone(currentMsgRef) => SubSeq(messages', 1, n) = messages
            /\ IsSome(currentMsgRef) =>
                 \A i \in 1..n :
                   messages'[i] = IF messages[i].id = currentMsgRef[1].id
                                  THEN finalize(currentMsgRef[1], eu) ELSE messages[i]]_vars

\* A message_end finalized a turn with text and appended, behind it, the turn
\* of its one bundled chart.
C14_Witness ==
  /\ Len(messages) = 2
  /\ IsNone(currentMsgRef)
  /\ messages[1].role = "assistant" /\ messages[1].content # <<>> /\ ~messages[1].isStreaming
  /\ messages[2] = NewMsg(messages[2].id, "assistant", <<>>, <<"spec2">>, FALSE)

\* C15: an error event sets the in-progress reference to null and the busy
\* flag to false and leaves the transcript as it is, the partially built
\* turn with its content and its streaming flag included.
C15_ErrorLeavesTranscript ==
  [][OnError => (IsNone(currentMsgRef') /\ ~isLoading' /\ messages' = messages)]_vars

\* An error abandoned a turn: no in-progress message, not busy, and the
\* transcript has an assistant turn with text that is still streaming.
C15_Witness ==
  /\ IsNone(currentMsgRef)
  /\ ~isLoading
  /\ \E i \in DOMAIN messages :
       /\ messages[i].role = "assistant"
       /\ messages[i].isStreaming
       /\ messages[i].content # <<>>
  /\ \E i \in DOMAIN messages : messages[i].role = "user"

MalformedStep == NextMalformed

\* C16 as stated: a malformed inbound frame leaves the transcript, the
\* in-progress reference and the busy flag as they were.
C16_MalformedIsDropped ==
  [][MalformedStep => UNCHANGED <<messages, currentMsgRef, isLoading>>]_vars

AcceptedSend == \E t \in Texts : Send(t)
TerminalStep == MessageEndStep \/ OnError

\* C17: the busy flag becomes true only through a sendMessage call that
\* passed the guard, and every such call sets it; it becomes false only
\* through a message_end or an error event, and each of them clears it; no
\* other step (another frame, a connection event, a reset) changes it.
C17_BusyFromSendToTerminal ==
  [][/\ (isLoading' /\ ~isLoading) => AcceptedSend
     /\ (isLoading /\ ~isLoading') => TerminalStep
     /\ AcceptedSend => isLoading'
     /\ TerminalStep => ~isLoading']_vars

\* The busy flag set by a send is still set after frames built a turn with
\* a status label and the connection was lost.
C17_Witness ==
  /\ isLoading
  /\ ~isConnected
  /\ IsSome(currentMsgRef)
  /\ currentMsgRef[1].content # <<>>
  /\ IsSome(currentMsgRef[1].toolStatus)
  /\ \E i \in DOMAIN messages : messages[i].role = "user"

ContentStep == (\E d \in Deltas : OnTextDelta(d)) \/ (\E ch \in Charts : OnChart(ch))

\* C18 as stated: when a text_delta or a chart arrives as part of the answer
\* to a send whose user turn is in the transcript, the turn that receives
\* the content is not positioned before that user turn.
C18_UserTurnPrecedesResponse ==
  [][(ContentStep /\ Answering # 0) =>
       \A i, j \in DOMAIN messages' :
         (messages'[i].id = Answering /\ messages'[j].id = currentMsgRef'[1].id) => i < j]_vars

\* C19: every step other than a reset leaves the ids of the turns the
\* transcript had, in their order, as a prefix of the ids it has afterwards.
C19_AppendOnly ==
  [][~ResetStep =>
       /\ Len(messages') >= Len(messages)
       /\ SubSeq(Ids(messages'), 1, Len(messages)) = Ids(messages)]_vars

\* A turn kept its place while it was updated after a later turn had been
\* appended behind it.
C19_Witness ==
  /\ Len(messages) = 3
  /\ messages[1].role = "user"
  /\ messages[2].role = "assistant"
  /\ messages[3].role = "user"
  /\ IsSome(currentMsgRef)
  /\ messages[2] = currentMsgRef[1]
  /\ touched = messages[2].id
  /\ deltaLog[messages[2].id] = << <<"a">>, <<"b">> >>

\* C20 as stated: an assistant turn of the transcript that is not streaming
\* is the same after every step that keeps it in the transcript (so a
\* streaming flag that is false never becomes true again, and content,
\* charts, usage and tool status of a finished turn never change).
C20_FinishedTurnIsImmutable ==
  [][\A i \in DOMAIN messages :
       (/\ messages[i].role = "assistant"
        /\ ~messages[i].isStreaming
        /\ i \in DOMAIN messages'
        /\ messages'[i].id = messages[i].id) => messages'[i] = messages[i]]_vars

\* ------------------------------------------------------------ C21 .. C30
\* C21 as stated: no turn of the transcript that is not streaming has a
\* tool-status label.
C21_FinishedTurnHasNoStatus ==
  \A i \in DOMAIN messages : ~messages[i].isStreaming => IsNone(messages[i].toolStatus)

\* C22: a user turn is not streaming, and every step that keeps it in the
\* transcript leaves all of its fields as they were.
C22_UserTurnNeverChanges ==
  [][/\ \A i \in DOMAIN messages' :
          messages'[i].role = "user" => ~messages'[i].isStreaming
     /\ \A i \in DOMAIN messages :
          (/\ messages[i].role = "user"
           /\ i \in DOMAIN messages'
           /\ messages'[i].id = messages[i].id) => messages'[i] = messages[i]]_vars

\* A user turn is as it was sent after an answer was streamed and finished
\* behind it and the connection was lost.
C22_Witness ==
  /\ Len(messages) = 2
  /\ messages[1] = NewUserMsg(messages[1].id, <<"h">>)
  /\ messages[2].role = "assistant"
  /\ ~messages[2].isStreaming
  /\ messages[2].content # <<>>
  /\ IsSome(messages[2].tokenUsage)
  /\ ~isConnected

StatusOrUsageStep ==
  (\E l \in Labels : OnToolStatus(l)) \/ (\E u \in Usages : OnTokenUsage(u))

\* C23: a tool_status or a token_usage that arrives with no in-progress
\* message leaves the transcript, the in-progress reference and the busy
\* flag as they were.
C23_StatusAndUsageInIdle ==
  [][(IsNone(currentMsgRef) /\ StatusOrUsageStep) =>
       UNCHANGED <<messages, currentMsgRef, isLoading>>]_vars

\* With no in-progress message, a sent turn in the transcript and the busy
\* flag set, a tool_status and a token_usage can arrive.
C23_Witness ==
  /\ IsNone(currentMsgRef)
  /\ isLoading
  /\ messages # <<>>
  /\ ENABLED (\E l \in Labels : OnToolStatus(l))
  /\ ENABLED (\E u \in Usages : OnTokenUsage(u))

\* C24: a token_usage puts its record on the in-progress message; the turn
\* a message_end finalizes has the record the frame bundles when it bundles
\* one, and otherwise the record the in-progress message had.
C24_UsageAtMessageEnd ==
  [][/\ \A u \in Usages :
          (OnTokenUsage(u) /\ IsSome(currentMsgRef)) =>
            currentMsgRef'[1].tokenUsage = Some(u)
     /\ \A ec \in EndCharts, eu \in EndUsages :
          (OnMessageEnd(ec, eu) /\ IsSome(currentMsgRef)) =>
            \A i \in DOMAIN messages :
              messages[i].id = currentMsgRef[1].id =>
                messages'[i].tokenUsage =
                  IF IsSome(eu) THEN eu ELSE currentMsgRef[1].tokenUsage]_vars

\* A finished turn has the usage record a token_usage gave it or its
\* message_end bundled.
C24_Witness ==
  /\ IsNone(currentMsgRef)
  /\ \E i \in DOMAIN messages :
       /\ messages[i].role = "assistant"
       /\ ~messages[i].isStreaming
       /\ messages[i].charts # <<>>
       /\ messages[i].tokenUsage = Some([input_tokens |-> 10, output_tokens |-> 5, model |-> "x"])

\* C25 as stated: an event writes the usage record of a turn only when the
\* turn has none.
C25_UsageWrittenOnce ==
  [][(/\ IsSome(currentMsgRef)
      /\ \/ \E u \in Usages : OnTokenUsage(u)
         \/ \E ec \in EndCharts, eu \in EndUsages : IsSome(eu) /\ OnMessageEnd(ec, eu)) =>
       IsNone(currentMsgRef[1].tokenUsage)]_vars

FrameStep == ContentStep \/ StatusOrUsageStep \/ TerminalStep

\* C29 as stated: a frame that arrives after the connection was lost and
\* made again leaves the turn that was in progress when the connection
\* closed as it was.
C29_InFlightIsAbandoned ==
  [][(FrameStep /\ abandoned # 0) =>
       \A i \in DOMAIN messages :
         messages[i].id = abandoned => messages'[i] = messages[i]]_vars

ConnectionStep ==
  \/ SessionChange
  \/ Unmount
  \/ \E s \in SockIds : SocketOpen(s) \/ SocketClose(s) \/ SocketFail(s)
  \/ \E t \in TimerIds : TimerFire(t)

\* C28: the effect running connect, a socket opening, closing or failing
\* and a reconnect timer firing leave the transcript and the in-progress
\* reference as they were.
C28_ConnectionEventsKeepTranscript ==
  [][ConnectionStep => UNCHANGED <<messages, currentMsgRef>>]_vars

\* The message that was in progress when the connection closed is still the
\* in-progress one, and in the transcript, after the connection was made
\* again.
C28_Witness ==
  /\ IsSome(currentMsgRef)
  /\ abandoned = currentMsgRef[1].id
  /\ currentMsgRef[1].content # <<>>
  /\ \E i \in DOMAIN messages : messages[i] = currentMsgRef[1]
  /\ isConnected
  /\ canSend(wsRef, sockets)
  /\ PendingTimers = {}

\* C30 as stated: once the connection is made again after it was lost with
\* an answer outstanding (the server of the new connection has no request
\* to answer, so no frame will arrive), the chat input's submit is accepted.
C30_FailureIsNotBlocking ==
  (/\ mounted
   /\ pc = "idle"
   /\ isConnected
   /\ canSend(wsRef, sockets)
   /\ outstanding = <<>>) =>
    \E t \in Texts : handleSubmitPasses(t, isLoading)

\* ------------------------------------------------------------ C31 .. C38
\* Message m2 is message m1 but for field f.
SameBut(f, m1, m2) == [m2 EXCEPT ![f] = m1[f]] = m1

\* A step that changed field f of the in-progress message and nothing else:
\* the in-progress reference is the same message but for f, the transcript
\* has the same length, its entry of that id is the same but for f, every
\* other entry, the busy flag and the connection are as they were.
TouchesOnly(f) ==
  /\ IsSome(currentMsgRef')
  /\ SameBut(f, currentMsgRef[1], currentMsgRef'[1])
  /\ Len(messages') = Len(messages)
  /\ \A i \in DOMAIN messages :
       IF messages[i].id = currentMsgRef[1].id
       THEN SameBut(f, messages[i], messages'[i]) /\ messages'[i] = currentMsgRef'[1]
       ELSE messages'[i] = messages[i]
  /\ UNCHANGED <<isLoading, sessionId>>
  /\ UNCHANGED connVars

\* C33: with a message in progress, a text_delta changes only its content,
\* a chart only its charts, a tool_status only its tool status and a
\* token_usage only its usage record; every other turn, the length of the
\* transcript, the busy flag and the connection are unchanged.
C33_StreamingFrameTouchesOneField ==
  [][IsSome(currentMsgRef) =>
       /\ (\E d \in Deltas : OnTextDelta(d)) => TouchesOnly("content")
       /\ (\E ch \in Charts : OnChart(ch)) => TouchesOnly("charts")
       /\ (\E l \in Labels : OnToolStatus(l)) => TouchesOnly("toolStatus")
       /\ (\E u \in Usages : OnTokenUsage(u)) => TouchesOnly("tokenUsage")]_vars

\* A user turn, then the in-progress turn, which has content from a
\* text_delta and a usage record from a token_usage.
C33_Witness ==
  /\ IsSome(currentMsgRef)
  /\ Len(messages) = 2
  /\ messages[1].role = "user"
  /\ messages[2] = currentMsgRef[1]
  /\ currentMsgRef[1].content # <<>>
  /\ IsSome(currentMsgRef[1].tokenUsage)
  /\ isLoading

\* C35 as stated: the connected flag is true exactly when the socket wsRef
\* points to is open, which is when sendMessage passes its guard.
C35_FlagIsHandleOpen == isConnected <=> canSend(wsRef, sockets)

\* C36 as stated: the socket wsRef points to was created for the current
\* session identifier, and every socket created for another identifier is
\* closing or closed.
C36_HandleOfCurrentSession ==
  /\ wsRef # 0 => sockets[wsRef].sid = sessionId
  /\ \A s \in LiveSockets : sockets[s].sid = sessionId

\* The model has room for one more send.
RoomToSend ==
  /\ Len(wire) < MaxWire
  /\ Len(messages) < MaxTurns
  /\ Cardinality(Alive(Assembler)) < MaxTurns
  /\ Len(outstanding) < MaxOutstanding

\* C37: with the socket of wsRef open a sendMessage call is accepted,
\* whether a message is in progress or not and whatever the busy flag; it
\* appends the user turn at the end of the transcript and leaves the
\* in-progress reference and the turns already there as they were; a frame
\* that arrives with the user turn last in the transcript is applied to
\* the message that was in progress before.
C37_SendInAnyAssemblerState ==
  [][/\ (pc = "idle" /\ mounted /\ wsRef # 0 /\ sockets[wsRef].st = "OPEN" /\ RoomToSend) =>
          ENABLED AcceptedSend
     /\ (AcceptedSend \/ SendRest) =>
          /\ currentMsgRef' = currentMsgRef
          /\ SubSeq(messages', 1, Len(messages)) = messages
     /\ AcceptedSend =>
          /\ Len(messages') = Len(messages) + 1
          /\ messages'[Len(messages')].role = "user"
     /\ (/\ ContentStep \/ StatusOrUsageStep
         /\ IsSome(currentMsgRef)
         /\ messages # <<>>
         /\ messages[Len(messages)].role = "user") =>
          /\ IsSome(currentMsgRef')
          /\ currentMsgRef'[1].id = currentMsgRef[1].id
          /\ Ids(messages') = Ids(messages)]_vars

\* A send was accepted with a message in progress: its user turn follows
\* the in-progress turn, which follows the user turn of an earlier send.
C37_Witness ==
  /\ pc = "send"
  /\ isLoading
  /\ IsSome(currentMsgRef)
  /\ Len(messages) = 3
  /\ messages[1].role = "user"
  /\ messages[2] = currentMsgRef[1]
  /\ messages[3].role = "user"

\* C32: while the session identifier is empty no socket exists, wsRef is
\* null, the connected flag is false and no timer exists: the connect the
\* effect runs for the empty identifier changes none of them.
C32_NoConnectionWithoutSession ==
  sessionId = 0 =>
    /\ wsRef = 0
    /\ ~isConnected
    /\ reconnectTimerRef = 0
    /\ \A s \in SockIds : sockets[s] = FreeSocket
    /\ \A t \in TimerIds : timers[t] = FreeTimer

\* The effect has run connect for the empty identifier.
C32_Witness ==
  /\ mounted
  /\ sessionId = 0
  /\ wsRef = 0
  /\ \A s \in SockIds : sockets[s] = FreeSocket

\* The chat input calls sendMessage: by either path.
SubmitCalls == \E i \in Inputs : handleSubmit(i)
TipCalls == \E q \in Tips : handleTipClick(q)

\* The submit path is gated: with the connected flag false it cannot run.
SubmitIsGated == ~isConnected => ~ENABLED SubmitCalls

\* C38 as stated: with the connected flag false the chat input cannot call
\* sendMessage, neither by the submit path nor by the prompt-tip path.
C38_InputGatesOnConnected == ~isConnected => ~ENABLED (SubmitCalls \/ TipCalls)

UndecodableStep == OnMalformed("unparsable") \/ OnMalformed("unknown_tag")

\* C31 as stated: a frame that does not parse, or whose type tag is none of
\* the six, adds one entry to the console and leaves the transcript, the
\* in-progress reference, the busy flag and the connection as they were.
C31_UndecodableIsReported ==
  [][UndecodableStep =>
       /\ consoleErrors' = consoleErrors + 1
       /\ UNCHANGED <<messages, currentMsgRef, isLoading>>
       /\ UNCHANGED connVars]_vars

\* C34 as stated: once every queued update has run, each entry of the
\* transcript is the message of that id as the handlers left it: the same
\* content, charts, streaming flag, tool status and usage record.
C34_SnapshotAgreesWithAssembler ==
  pending = <<>> =>
    \A i \in DOMAIN messages : built[messages[i].id] = Some(messages[i])

=============================================================================
